---- MODULE Spec2Model ----
(***************************************************************************)
(* Model of pierdav/stkxp-api-diagnostics:                                 *)
(*   generate_diagnostics.py  version rules, endpoint resolution, bundle   *)
(*                            generation                                   *)
(*   server.py                bundle parser (clean, load_routes) and the   *)
(*                            bundle server                                *)
(*   elastic_api_server.py    catalog route mapping and catch_all          *)
(* Texts are sequences of one-character strings, so that the regular       *)
(* expressions and string methods of the source are computed character by  *)
(* character.                                                              *)
(***************************************************************************)
EXTENDS Integers, Sequences, FiniteSets, TLC

VARIABLES
    rpc, rule, version, verdict, lo, hi,
    kpc, text, before,
    gpc, yaml_config, json_files, es_version, gi, counter, out,
    bpc, fp, json_parser, content, li, cur, buf, routes, app_routes,
    cpc, cfg, config, files, target, ci, ROUTE_MAP,
    handler, req, resp

ruleVars == <<rpc, rule, version, verdict, lo, hi>>
cleanVars == <<kpc, text, before>>
genVars == <<gpc, yaml_config, json_files, es_version, gi, counter, out>>
bundleVars == <<bpc, fp, json_parser, content, li, cur, buf, routes, app_routes>>
catalogVars == <<cpc, cfg, config, files, target, ci, ROUTE_MAP>>
httpVars == <<handler, req, resp>>
vars == <<ruleVars, cleanVars, genVars, bundleVars, catalogVars, httpVars>>

(***************************************************************************)
(* Bounds of the model.                                                    *)
(***************************************************************************)
\* version parts of the range rules run over 0..MaxPart and one two-digit part
MaxPart == 1
\* API definitions of a catalog
MaxApis == 2
\* characters of a body text handed to clean
MaxText == 4
\* lines of a bundle file
MaxLines == 4

(***************************************************************************)
(* Characters and string helpers.                                          *)
(***************************************************************************)
\* Python's None: a value that is no text
None == <<"None">>

Digits == {"0", "1", "2", "3", "4", "5", "6", "7", "8", "9"}

\* \s of the re module, on the characters the model uses
Spaces == {" ", "\n", "\t"}

\* the character class [><=] of the condition pattern
OpChars == {">", "<", "="}

DigitVal(c) ==
    CASE c = "0" -> 0 [] c = "1" -> 1 [] c = "2" -> 2 [] c = "3" -> 3
      [] c = "4" -> 4 [] c = "5" -> 5 [] c = "6" -> 6 [] c = "7" -> 7
      [] c = "8" -> 8 [] c = "9" -> 9

\* first position >= i of s whose character is not in class (Len(s)+1 if none):
\* the end of a greedy run class* started at i
RECURSIVE RunEnd(_, _, _)
RunEnd(s, i, class) ==
    IF i > Len(s) \/ s[i] \notin class THEN i ELSE RunEnd(s, i + 1, class)

\* int() of the digits s[i..j-1]
RECURSIVE ToInt(_, _, _)
ToInt(s, i, j) ==
    IF j <= i THEN 0 ELSE ToInt(s, i, j - 1) * 10 + DigitVal(s[j - 1])

\* str.strip(): leading and trailing whitespace removed
RECURSIVE Strip(_)
Strip(s) ==
    IF s = <<>> THEN s
    ELSE IF s[1] \in Spaces THEN Strip(Tail(s))
    ELSE IF s[Len(s)] \in Spaces THEN Strip(SubSeq(s, 1, Len(s) - 1))
    ELSE s

\* \d+\.\d+\.\d+ matched at position i of s: the three digit runs' bounds, or
\* <<>> when the pattern does not match there.  Each \d+ is greedy and is
\* followed by a non-digit, so no shorter run can match.
TripleAt(s, i) ==
    LET a == RunEnd(s, i, Digits)
        b == RunEnd(s, a + 1, Digits)
        c == RunEnd(s, b + 1, Digits)
    IN  IF /\ a > i /\ a <= Len(s) /\ s[a] = "."
           /\ b > a + 1 /\ b <= Len(s) /\ s[b] = "."
           /\ c > b + 1
        THEN <<i, a, b, c>>
        ELSE <<>>

(***************************************************************************)
(* generate_diagnostics.py: parse_version, evaluate_version_rule.          *)
(***************************************************************************)
\* re.match(r'(\d+)\.(\d+)\.(\d+)', version_str): the triple at the start of
\* the text, (0, 0, 0) when there is none
parse_version(version_str) ==
    LET m == TripleAt(version_str, 1)
    IN  IF m = <<>> THEN <<0, 0, 0>>
        ELSE <<ToInt(version_str, m[1], m[2]),
               ToInt(version_str, m[2] + 1, m[3]),
               ToInt(version_str, m[3] + 1, m[4])>>

\* Python's tuple comparison of two triples
TupleLess(a, b) ==
    \/ a[1] < b[1]
    \/ a[1] = b[1] /\ a[2] < b[2]
    \/ a[1] = b[1] /\ a[2] = b[2] /\ a[3] < b[3]

\* re.findall(r'([><=]+)\s*(\d+\.\d+\.\d+)', rule) from position i on: the
\* (operator, rule_version) pairs of the non-overlapping matches, left to right
RECURSIVE FindConditions(_, _)
FindConditions(s, i) ==
    IF i > Len(s) THEN <<>>
    ELSE IF s[i] \notin OpChars THEN FindConditions(s, i + 1)
    ELSE LET j == RunEnd(s, i, OpChars)
             k == RunEnd(s, j, Spaces)
             m == TripleAt(s, k)
         IN  IF m = <<>> THEN FindConditions(s, i + 1)
             ELSE <<[operator |-> SubSeq(s, i, j - 1),
                     rule_version |-> SubSeq(s, k, m[4] - 1)]>>
                  \o FindConditions(s, m[4])

\* a ">=" that is evaluated as ">"
ConditionHoldsStrict(ver_tuple, operator, rule_tuple) ==
    CASE operator = <<">", "=">> -> TupleLess(rule_tuple, ver_tuple)
      [] operator = <<">">> -> TupleLess(rule_tuple, ver_tuple)
      [] operator = <<"<", "=">> -> ~TupleLess(rule_tuple, ver_tuple)
      [] operator = <<"<">> -> TupleLess(ver_tuple, rule_tuple)
      [] operator = <<"=">> -> ver_tuple = rule_tuple
      [] OTHER -> TRUE

\* the if/elif chain of the loop body: FALSE where the code returns False; an
\* operator that is none of the five falls through every branch
ConditionHolds(ver_tuple, operator, rule_tuple) ==
    CASE operator = <<">", "=">> -> ~TupleLess(ver_tuple, rule_tuple)
      [] operator = <<">">> -> TupleLess(rule_tuple, ver_tuple)
      [] operator = <<"<", "=">> -> ~TupleLess(rule_tuple, ver_tuple)
      [] operator = <<"<">> -> TupleLess(ver_tuple, rule_tuple)
      [] operator = <<"=">> -> ver_tuple = rule_tuple
      [] OTHER -> TRUE

evaluate_version_rule(ver, rl) ==
    LET ver_tuple == parse_version(ver)
        conditions == FindConditions(Strip(rl), 1)
    IN  /\ \A n \in 1..Len(conditions) :
              ConditionHolds(ver_tuple, conditions[n].operator,
                             parse_version(conditions[n].rule_version))
        /\ Len(conditions) > 0

(***************************************************************************)
(* server.py: clean.                                                       *)
(***************************************************************************)
\* re.sub(r"//.*?$|#.*?$", "", text, flags=re.M): from a "//" or a "#" to the
\* end of its line, the line break kept
RECURSIVE StripComments(_, _)
StripComments(s, i) ==
    IF i > Len(s) THEN <<>>
    ELSE IF \/ s[i] = "#"
            \/ s[i] = "/" /\ i < Len(s) /\ s[i + 1] = "/"
         THEN StripComments(s, RunEnd(s, i, {c \in {s[n] : n \in 1..Len(s)} : c # "\n"}))
         ELSE <<s[i]>> \o StripComments(s, i + 1)

\* text.replace("...", "null"): the non-overlapping occurrences, left to right
RECURSIVE ReplaceEllipses(_, _)
ReplaceEllipses(s, i) ==
    IF i > Len(s) THEN <<>>
    ELSE IF i + 2 <= Len(s) /\ s[i] = "." /\ s[i + 1] = "." /\ s[i + 2] = "."
         THEN <<"n", "u", "l", "l">> \o ReplaceEllipses(s, i + 3)
         ELSE <<s[i]>> \o ReplaceEllipses(s, i + 1)

Closers == {"}", "]"}

\* re.sub(r",\s*([}\]])", r"\1", text): a comma, the whitespace after it and a
\* closer become the closer; the scan goes on behind the closer
RECURSIVE StripTrailingCommas(_, _)
StripTrailingCommas(s, i) ==
    IF i > Len(s) THEN <<>>
    ELSE LET j == RunEnd(s, i + 1, Spaces)
         IN  IF s[i] = "," /\ j <= Len(s) /\ s[j] \in Closers
             THEN <<s[j]>> \o StripTrailingCommas(s, j + 1)
             ELSE <<s[i]>> \o StripTrailingCommas(s, i + 1)

clean(t) ==
    StripTrailingCommas(ReplaceEllipses(StripComments(t, 1), 1), 1)

(***************************************************************************)
(* Inputs of evaluate_version_rule: rule texts and version texts.          *)
(***************************************************************************)
DigitChar(n) ==
    CASE n = 0 -> "0" [] n = 1 -> "1" [] n = 2 -> "2" [] n = 3 -> "3"
      [] n = 4 -> "4" [] n = 5 -> "5" [] n = 6 -> "6" [] n = 7 -> "7"
      [] n = 8 -> "8" [] n = 9 -> "9"

\* the decimal text of a natural number
RECURSIVE FormatNat(_)
FormatNat(n) ==
    IF n < 10 THEN <<DigitChar(n)>>
    ELSE FormatNat(n \div 10) \o <<DigitChar(n % 10)>>

\* "major.minor.patch"
FormatVersion(t) ==
    FormatNat(t[1]) \o <<".">> \o FormatNat(t[2]) \o <<".">> \o FormatNat(t[3])

Parts == (0..MaxPart) \cup {10}

Triples == Parts \X Parts \X Parts

\* operator tokens a rule text may carry: the five supported ones, two that
\* are made of the same characters but are none of the five, and none at all
OpTokens ==
    {<<">", "=">>, <<">">>, <<"<", "=">>, <<"<">>, <<"=">>,
     <<"=", "=">>, <<"=", ">">>, <<>>}

\* what may follow an operator: a version triple or a malformed version
ArgTexts ==
    {FormatVersion(<<1, 0, 0>>), FormatVersion(<<1, 10, 0>>), <<"1", ".", "0">>}

Pieces ==
    {op \o sp \o arg : op \in OpTokens, sp \in {<<>>, <<" ">>}, arg \in ArgTexts}

\* rule texts of zero, one or two pieces
RuleTexts ==
    {<<>>} \cup Pieces \cup {p \o <<" ">> \o q : p \in Pieces, q \in Pieces}

\* version texts: well-formed triples and one that does not parse
VersionTexts == {FormatVersion(t) : t \in Triples} \cup {<<"x">>}

\* the rule ">= v1 < v3"
RangeRule(v1, v3) ==
    <<">", "=", " ">> \o FormatVersion(v1) \o <<" ", "<", " ">> \o FormatVersion(v3)

RuleIdle ==
    /\ rpc = "idle" /\ rule = <<>> /\ version = <<>> /\ verdict = FALSE
    /\ lo = <<>> /\ hi = <<>>

CleanIdle == kpc = "idle" /\ text = <<>> /\ before = <<>>

GenIdle ==
    /\ gpc = "idle" /\ yaml_config = <<>> /\ json_files = {}
    /\ es_version = <<>> /\ gi = 0 /\ counter = 0 /\ out = <<>>

BundleIdle ==
    /\ bpc = "idle" /\ fp = "none" /\ json_parser = "none" /\ content = <<>>
    /\ li = 0 /\ cur = None /\ buf = <<>> /\ routes = <<>> /\ app_routes = <<>>

CatalogIdle ==
    /\ cpc = "idle" /\ cfg = "none" /\ config = <<>> /\ files = {}
    /\ target = <<>> /\ ci = 0 /\ ROUTE_MAP = <<>>

HttpIdle ==
    /\ handler = "none" /\ req = <<>>
    /\ resp = [status_code |-> 0, content |-> <<>>]

\* a call evaluate_version_rule(version, rule) about to be made
InitRule ==
    /\ rpc = "call"
    /\ verdict = FALSE
    /\ \/ /\ rule \in RuleTexts
          /\ version \in VersionTexts
          /\ lo = <<>> /\ hi = <<>>
       \/ /\ lo \in Triples /\ hi \in Triples
          /\ rule = RangeRule(lo, hi)
          /\ version \in {FormatVersion(t) : t \in Triples}
    /\ CleanIdle /\ GenIdle /\ BundleIdle /\ CatalogIdle /\ HttpIdle

EvaluateRule ==
    /\ rpc = "call"
    /\ verdict' = evaluate_version_rule(version, rule)
    /\ rpc' = "return"
    /\ UNCHANGED <<rule, version, lo, hi, cleanVars, genVars, bundleVars, catalogVars, httpVars>>

NextRule == EvaluateRule

SpecRule == InitRule /\ [][NextRule]_vars

(***************************************************************************)
(* Claims about evaluate_version_rule.                                     *)
(***************************************************************************)
\* the conditions of the rule text whose operator is one of the five
SupportedOps == {<<">", "=">>, <<">">>, <<"<", "=">>, <<"<">>, <<"=">>}

ShapedConditions(rl) ==
    LET cs == FindConditions(Strip(rl), 1)
    IN  {n \in 1..Len(cs) : cs[n].operator \in SupportedOps}

\* C3: evaluate_version_rule returns true exactly when the rule text holds at
\* least one condition (one of >=, >, <=, <, = followed by a version triple)
\* and every such condition holds for the version; a text with no condition of
\* that shape matches no version.
C3_MatchesIffShapedConditionsHold ==
    rpc = "return" =>
        LET cs == FindConditions(Strip(rule), 1)
            v == parse_version(version)
        IN  verdict =
              (/\ ShapedConditions(rule) # {}
               /\ \A n \in ShapedConditions(rule) :
                     ConditionHolds(v, cs[n].operator,
                                    parse_version(cs[n].rule_version)))

TupleLeq(a, b) == ~TupleLess(b, a)

\* the version triple a version text was written from
IsVersion(t) == version = FormatVersion(t)

\* C9 as stated: for v1 <= v2 <= v3 the rule ">= v1 < v3" matches v2, matches
\* no triple below v1 and no triple at or above v3.
C9_RangeRuleAsStated ==
    (rpc = "return" /\ lo # <<>> /\ TupleLeq(lo, hi)) =>
        \A t \in Triples : IsVersion(t) =>
            /\ (TupleLeq(lo, t) /\ TupleLeq(t, hi)) => verdict
            /\ TupleLess(t, lo) => ~verdict
            /\ TupleLeq(hi, t) => ~verdict

\* C9 amended: for v1 <= v2 < v3 the rule ">= v1 < v3" matches v2; it matches
\* no triple below v1 and no triple at or above v3 (v3 itself included).
C9_RangeRuleHalfOpen ==
    (rpc = "return" /\ lo # <<>> /\ TupleLeq(lo, hi)) =>
        \A t \in Triples : IsVersion(t) =>
            /\ (TupleLeq(lo, t) /\ TupleLess(t, hi)) => verdict
            /\ TupleLess(t, lo) => ~verdict
            /\ TupleLeq(hi, t) => ~verdict

\* a range rule over two-digit parts has matched a version strictly inside it
C9_Witness ==
    /\ rpc = "return" /\ lo = <<1, 1, 10>> /\ hi = <<1, 10, 0>>
    /\ IsVersion(<<1, 1, 10>>)
    /\ verdict

(***************************************************************************)
(* generate_diagnostics.py: get_matching_api_endpoint, generate_output.    *)
(***************************************************************************)
\* the position of the first entry of versions_dict, in dict order, whose rule
\* evaluates true from position n on; 0 when there is none
RECURSIVE FirstMatchFrom(_, _, _)
FirstMatchFrom(versions_dict, ver, n) ==
    IF n > Len(versions_dict) THEN 0
    ELSE IF evaluate_version_rule(ver, versions_dict[n].rule) THEN n
    ELSE FirstMatchFrom(versions_dict, ver, n + 1)

\* the position of the last entry whose rule evaluates true; 0 when none
RECURSIVE LastMatchFrom(_, _, _)
LastMatchFrom(versions_dict, ver, n) ==
    IF n > Len(versions_dict) THEN 0
    ELSE LET later == LastMatchFrom(versions_dict, ver, n + 1)
         IN  IF later # 0 THEN later
             ELSE IF evaluate_version_rule(ver, versions_dict[n].rule) THEN n
             ELSE 0

\* a resolution that lets a later matching entry override an earlier one
get_matching_api_endpoint_last(versions_dict, ver) ==
    LET n == LastMatchFrom(versions_dict, ver, 1)
    IN  IF n = 0 THEN None ELSE versions_dict[n].api_path

get_matching_api_endpoint(versions_dict, ver) ==
    LET n == FirstMatchFrom(versions_dict, ver, 1)
    IN  IF n = 0 THEN None ELSE versions_dict[n].api_path

\* f"# {counter}: GET {api_endpoint} 200 OK"
HeaderLine(n, api_endpoint) ==
    <<"#", " ">> \o FormatNat(n) \o <<":", " ", "G", "E", "T", " ">>
    \o api_endpoint \o <<" ", "2", "0", "0", " ", "O", "K">>

\* one iteration of the loop over yaml_config.items(): the record it writes,
\* <<>> when the iteration ends in a continue
RecordWritten(api, found, ver, n) ==
    LET api_endpoint == get_matching_api_endpoint(api.versions, ver)
    IN  IF api.name # <<>> /\ api.name[1] = "#" THEN <<>>
        ELSE IF ~api.is_dict THEN <<>>
        ELSE IF api.extension # ".json" THEN <<>>
        ELSE IF api_endpoint = None \/ api_endpoint = <<>> THEN <<>>
        ELSE IF api.name \notin DOMAIN found THEN <<>>
        ELSE IF Strip(found[api.name]) = <<>> THEN <<>>
        ELSE <<[api |-> api.name,
                header |-> HeaderLine(n, api_endpoint),
                body |-> Strip(found[api.name])]>>

(***************************************************************************)
(* Inputs of generate_output: a catalog, the JSON files found, the version. *)
(***************************************************************************)
RuleGe9 == <<">", "=", "9", ".", "0", ".", "0">>
RuleGe0 == <<">", "=", "0", ".", "0", ".", "0">>
RuleLt9 == <<"<", "9", ".", "0", ".", "0">>
PathNew == <<"/", "n", "e", "w">>
PathOld == <<"/", "o", "l", "d">>

CatalogRules == {RuleGe9, RuleGe0, RuleLt9}

\* the versions mappings: none, one or two rules (dict keys are distinct), the
\* first leading to /new and the second to /old, and one whose pattern is empty
VersionsDicts ==
    {<<>>}
    \cup {<<[rule |-> r, api_path |-> PathNew]>> : r \in CatalogRules}
    \cup {<<[rule |-> p[1], api_path |-> PathNew],
             [rule |-> p[2], api_path |-> PathOld]>> :
             p \in {q \in CatalogRules \X CatalogRules : q[1] # q[2]}}
    \cup {<<[rule |-> RuleGe0, api_path |-> <<>>]>>}

ApiName(n) == <<"a">> \o FormatNat(n)

\* the n-th API definition of a catalog: a JSON API with any versions mapping,
\* a .txt API, a value that is no mapping, or a key written as a comment
ApiDefinitions(n) ==
    {[name |-> ApiName(n), is_dict |-> TRUE, extension |-> ".json", versions |-> v] :
        v \in VersionsDicts}
    \cup {[name |-> ApiName(n), is_dict |-> TRUE, extension |-> ".txt",
           versions |-> <<[rule |-> RuleGe0, api_path |-> PathOld]>>],
          [name |-> ApiName(n), is_dict |-> FALSE, extension |-> ".json",
           versions |-> <<>>],
          [name |-> <<"#">> \o ApiName(n), is_dict |-> TRUE, extension |-> ".json",
           versions |-> <<[rule |-> RuleGe0, api_path |-> PathOld]>>]}

Catalogs ==
    UNION {{c \in [1..k -> UNION {ApiDefinitions(n) : n \in 1..k}] :
               \A n \in 1..k : c[n] \in ApiDefinitions(n)} : k \in 0..MaxApis}

\* what f.read() returns for a JSON file found: a document or a blank file
FileTexts == {<<"[", "1", "]", "\n">>, <<" ", "\n">>}

\* get_es_version: version.number of version.json, or the fallback "8.11.1"
EsVersions == {FormatVersion(<<9, 1, 0>>), FormatVersion(<<8, 11, 1>>)}

InitGen ==
    /\ gpc = "loop"
    /\ yaml_config \in Catalogs
    /\ \E names \in SUBSET {yaml_config[n].name : n \in 1..Len(yaml_config)} :
           json_files \in [names -> FileTexts]
    /\ es_version \in EsVersions
    /\ gi = 1 /\ counter = 1 /\ out = <<>>
    /\ RuleIdle /\ CleanIdle /\ BundleIdle /\ CatalogIdle /\ HttpIdle

\* one iteration of "for api_name, api_config in yaml_config.items()"
GenerateOutputStep ==
    /\ gpc = "loop" /\ gi <= Len(yaml_config)
    /\ LET written == RecordWritten(yaml_config[gi], json_files, es_version, counter)
       IN  /\ out' = out \o written
           /\ counter' = counter + Len(written)
    /\ gi' = gi + 1
    /\ UNCHANGED <<gpc, yaml_config, json_files, es_version, ruleVars, cleanVars,
                   bundleVars, catalogVars, httpVars>>

\* the loop is over and the output file is closed
GenerateOutputReturn ==
    /\ gpc = "loop" /\ gi > Len(yaml_config)
    /\ gpc' = "done"
    /\ UNCHANGED <<yaml_config, json_files, es_version, gi, counter, out,
                   ruleVars, cleanVars, bundleVars, catalogVars, httpVars>>

NextGen == GenerateOutputStep \/ GenerateOutputReturn

SpecGen == InitGen /\ [][NextGen]_vars

(***************************************************************************)
(* Claims about get_matching_api_endpoint and generate_output.             *)
(***************************************************************************)
\* the positions of the entries of a versions mapping whose rule matches
MatchingEntries(versions_dict, ver) ==
    {k \in 1..Len(versions_dict) : evaluate_version_rule(ver, versions_dict[k].rule)}

Least(S) == CHOOSE k \in S : \A j \in S : k <= j

\* C6: get_matching_api_endpoint returns the pattern of the first entry, in
\* declared order, whose rule matches the version, also when a later entry
\* matches too, and no endpoint when no rule matches; generate_output then
\* writes no record for that API, and a record it writes for an API carries
\* the first matching entry's pattern in its header.
C6_FirstMatchingEntryWins ==
    gpc = "done" => \A n \in 1..Len(yaml_config) :
        LET api == yaml_config[n]
            matching == MatchingEntries(api.versions, es_version)
            records == {k \in 1..Len(out) : out[k].api = api.name}
        IN  /\ matching = {} =>
                /\ get_matching_api_endpoint(api.versions, es_version) = None
                /\ records = {}
            /\ matching # {} =>
                /\ get_matching_api_endpoint(api.versions, es_version)
                      = api.versions[Least(matching)].api_path
                /\ \A k \in records :
                      out[k].header
                        = HeaderLine(k, api.versions[Least(matching)].api_path)

\* the catalog [">=9.0.0" -> /new, ">=0.0.0" -> /old] at version 9.1.0 has been
\* written as a /new record, next to an API no rule of which matches
C6_Witness ==
    /\ gpc = "done"
    /\ es_version = FormatVersion(<<9, 1, 0>>)
    /\ Len(yaml_config) = 2
    /\ yaml_config[1].versions = <<[rule |-> RuleLt9, api_path |-> PathNew]>>
    /\ yaml_config[2].versions = <<[rule |-> RuleGe9, api_path |-> PathNew],
                                   [rule |-> RuleGe0, api_path |-> PathOld]>>
    /\ Len(out) = 1
    /\ out[1].api = ApiName(2)
    /\ out[1].header = HeaderLine(1, PathNew)

(***************************************************************************)
(* clean applied to a body text, and again to its own result.              *)
(***************************************************************************)
BodyChars == {",", "]", "}", " ", "\n", ".", "/", "#", "1"}

RECURSIVE TextsOfLen(_)
TextsOfLen(n) ==
    IF n = 0 THEN {<<>>}
    ELSE {Append(t, c) : t \in TextsOfLen(n - 1), c \in BodyChars}

BodyTexts == UNION {TextsOfLen(n) : n \in 0..MaxText}

InitClean ==
    /\ kpc = "call"
    /\ text \in BodyTexts
    /\ before = <<>>
    /\ RuleIdle /\ GenIdle /\ BundleIdle /\ CatalogIdle /\ HttpIdle

\* text = clean(text)
CleanOnce ==
    /\ kpc = "call"
    /\ before' = text
    /\ text' = clean(text)
    /\ kpc' = "cleaned"
    /\ UNCHANGED <<ruleVars, genVars, bundleVars, catalogVars, httpVars>>

\* the result of clean handed to clean once more
CleanAgain ==
    /\ kpc = "cleaned"
    /\ before' = text
    /\ text' = clean(text)
    /\ kpc' = "recleaned"
    /\ UNCHANGED <<ruleVars, genVars, bundleVars, catalogVars, httpVars>>

NextClean == CleanOnce \/ CleanAgain

SpecClean == InitClean /\ [][NextClean]_vars

\* C7: clean is idempotent: a second pass leaves the result of the first pass
\* unchanged.
C7_CleanIdempotent == kpc = "recleaned" => text = before

(***************************************************************************)
(* server.py: HDR, json_parser.loads, the routes dict, load_routes.        *)
(***************************************************************************)
Lower(c) == CASE c = "G" -> "g" [] c = "E" -> "e" [] c = "T" -> "t" [] OTHER -> c

\* HDR.match(ln) for HDR = ^#\s*\d+:\s*GET\s+(\S+)\s+\d+\s*\w* with re.I:
\* group(1), or None when the line is no header.  Every repetition is greedy
\* and is followed by a character outside its class, so no shorter repetition
\* can match.
HDR(ln) ==
    LET n == Len(ln)
        a == RunEnd(ln, 2, Spaces)
        b == RunEnd(ln, a, Digits)
        c == RunEnd(ln, b + 1, Spaces)
        d == RunEnd(ln, c + 3, Spaces)
        e == RunEnd(ln, d, {ln[k] : k \in 1..n} \ Spaces)
        f == RunEnd(ln, e, Spaces)
        g == RunEnd(ln, f, Digits)
    IN  IF /\ n >= 1 /\ ln[1] = "#"
           /\ b > a /\ b <= n /\ ln[b] = ":"
           /\ c + 2 <= n
           /\ Lower(ln[c]) = "g" /\ Lower(ln[c + 1]) = "e" /\ Lower(ln[c + 2]) = "t"
           /\ d > c + 3
           /\ e > d
           /\ f > e
           /\ g > f
        THEN SubSeq(ln, d, e - 1)
        ELSE None

\* the value json_parser.loads raises instead of returning
ParseError == <<"JSONDecodeError">>

\* The documents the model's parser reads: null, non-negative integers and
\* arrays of documents, with whitespace between the tokens.  ValueEnd is the
\* position behind the document that starts at or after i, 0 when there is
\* none; json5 (the optional import) also accepts one comma before the "]".
RECURSIVE ValueEnd(_, _, _)
RECURSIVE ElementsEnd(_, _, _)
ValueEnd(parser, s, i0) ==
    LET i == RunEnd(s, i0, Spaces)
    IN  IF i > Len(s) THEN 0
        ELSE IF s[i] = "0" THEN i + 1
        ELSE IF s[i] \in Digits THEN RunEnd(s, i, Digits)
        ELSE IF i + 3 <= Len(s) /\ SubSeq(s, i, i + 3) = <<"n", "u", "l", "l">>
             THEN i + 4
        ELSE IF s[i] = "["
             THEN LET j == RunEnd(s, i + 1, Spaces)
                  IN  IF j > Len(s) THEN 0
                      ELSE IF s[j] = "]" THEN j + 1
                      ELSE ElementsEnd(parser, s, j)
        ELSE 0

ElementsEnd(parser, s, i) ==
    LET e == ValueEnd(parser, s, i)
        j == RunEnd(s, e, Spaces)
        k == RunEnd(s, j + 1, Spaces)
    IN  IF e = 0 \/ j > Len(s) THEN 0
        ELSE IF s[j] = "]" THEN j + 1
        ELSE IF s[j] # "," THEN 0
        ELSE IF parser = "json5" /\ k <= Len(s) /\ s[k] = "]" THEN k + 1
        ELSE ElementsEnd(parser, s, j + 1)

\* json_parser.loads(s): the document read, written without whitespace and
\* without trailing commas (one text per value), or ParseError
loads(parser, s) ==
    LET e == ValueEnd(parser, s, 1)
    IN  IF e # 0 /\ RunEnd(s, e, Spaces) > Len(s)
        THEN StripTrailingCommas(SelectSeq(s, LAMBDA c : c \notin Spaces), 1)
        ELSE ParseError

\* "\n".join(buf)
RECURSIVE Join(_)
Join(lines) ==
    IF lines = <<>> THEN <<>>
    ELSE IF Len(lines) = 1 THEN lines[1]
    ELSE lines[1] \o <<"\n">> \o Join(Tail(lines))

\* a dict is the sequence of its items in insertion order
DictKeys(d) == {d[n].key : n \in 1..Len(d)}

DictGet(d, k) == d[CHOOSE n \in 1..Len(d) : d[n].key = k].value

\* an assignment d[k] = v that adds an item even when the key is present
DictAppend(d, k, v) == Append(d, [key |-> k, value |-> v])

\* d[k] = v: a present key keeps its place and takes the new value
DictSet(d, k, v) ==
    IF k \in DictKeys(d)
    THEN [n \in 1..Len(d) |-> IF d[n].key = k THEN [key |-> k, value |-> v] ELSE d[n]]
    ELSE Append(d, [key |-> k, value |-> v])

\* m.group(1) if m.group(1).startswith("/") else "/" + m.group(1)
NormalizeRoute(path) ==
    IF path # <<>> /\ path[1] = "/" THEN path ELSE <<"/">> \o path

\* the body of "for ln in content.splitlines()" for one line: the new
\* <<routes, cur, buf>>.  A body that does not parse ends the iteration at the
\* continue, before buf.clear() and before cur is assigned.
ScanLine(parser, ln, rs, c, b) ==
    LET m == HDR(ln)
        payload == loads(parser, clean(Join(b)))
    IN  IF m # None
        THEN IF c # None /\ b # <<>>
             THEN IF payload = ParseError
                  THEN <<rs, c, b>>
                  ELSE <<DictSet(rs, c, payload), NormalizeRoute(m), <<>>>>
             ELSE <<rs, NormalizeRoute(m), b>>
        ELSE IF c # None THEN <<rs, c, Append(b, ln)>>
        ELSE <<rs, c, b>>

\* the flush after the loop: the routes load_routes returns
FinalFlush(parser, rs, c, b) ==
    LET payload == loads(parser, clean(Join(b)))
    IN  IF c # None /\ b # <<>> /\ payload # ParseError
        THEN DictSet(rs, c, payload)
        ELSE rs

\* <<routes, cur, buf>> after the first n lines of the loop
RECURSIVE ScanLines(_, _, _)
ScanLines(parser, lines, n) ==
    IF n = 0 THEN <<<<>>, None, <<>>>>
    ELSE LET s == ScanLines(parser, lines, n - 1)
         IN  ScanLine(parser, lines[n], s[1], s[2], s[3])

\* load_routes(fp) for a readable file with these lines
load_routes(parser, lines) ==
    LET s == ScanLines(parser, lines, Len(lines))
    IN  FinalFlush(parser, s[1], s[2], s[3])

(***************************************************************************)
(* server.py as a program: load_routes(FILE), the registration of the      *)
(* routes, uvicorn.run and the GET requests served.                        *)
(***************************************************************************)
PathA == <<"/", "a">>
PathB == <<"/", "b">>
PathC == <<"/", "c">>

\* the paths of the header lines: b written without its slash, and /a?v with
\* the query string generate_output copies from the catalog
HeaderPaths == {<<"b">>, <<"/", "a", "?", "v">>}

\* the lines between headers: a document, the two halves of a document split
\* over two lines, a document only json5 reads after cleaning, and an elided
\* document with a trailing comma and a comment
BodyLines ==
    {<<"[", "1", "]">>,
     <<"[", "1", ",">>,
     <<"2", "]">>,
     <<"[", "3", ",", ",", "]">>,
     <<"[", ".", ".", ".", ",", "]", "#", "c">>}

BundleLines == {HeaderLine(1, p) : p \in HeaderPaths} \cup BodyLines

RECURSIVE BundlesOfLen(_)
BundlesOfLen(n) ==
    IF n = 0 THEN {<<>>}
    ELSE {Append(b, ln) : b \in BundlesOfLen(n - 1), ln \in BundleLines}

Bundles == UNION {BundlesOfLen(n) : n \in 0..MaxLines}

\* the module is imported: FILE is a bundle, is missing or cannot be read, and
\* json_parser is json5 when that import succeeds
InitBundle ==
    /\ bpc = "load"
    /\ json_parser \in {"json", "json5"}
    /\ \/ fp = "ok" /\ content \in Bundles
       \/ fp \in {"missing", "unreadable"} /\ content = <<>>
    /\ li = 0 /\ cur = None /\ buf = <<>> /\ routes = <<>> /\ app_routes = <<>>
    /\ HttpIdle /\ RuleIdle /\ CleanIdle /\ GenIdle /\ CatalogIdle

\* load_routes up to the loop: a missing file and a failing read_text both
\* return {}
LoadRoutesOpen ==
    /\ bpc = "load"
    /\ IF fp = "ok" THEN bpc' = "scan" /\ li' = 1
                    ELSE bpc' = "setup" /\ li' = li
    /\ UNCHANGED <<fp, json_parser, content, cur, buf, routes, app_routes,
                   httpVars, ruleVars, cleanVars, genVars, catalogVars>>

\* one iteration of the loop over content.splitlines()
LoadRoutesLine ==
    /\ bpc = "scan" /\ li <= Len(content)
    /\ LET next == ScanLine(json_parser, content[li], routes, cur, buf)
       IN  routes' = next[1] /\ cur' = next[2] /\ buf' = next[3]
    /\ li' = li + 1
    /\ UNCHANGED <<bpc, fp, json_parser, content, app_routes,
                   httpVars, ruleVars, cleanVars, genVars, catalogVars>>

\* the flush after the loop and the return of routes
LoadRoutesReturn ==
    /\ bpc = "scan" /\ li > Len(content)
    /\ routes' = FinalFlush(json_parser, routes, cur, buf)
    /\ bpc' = "setup"
    /\ UNCHANGED <<fp, json_parser, content, li, cur, buf, app_routes,
                   httpVars, ruleVars, cleanVars, genVars, catalogVars>>

\* "for path, payload in routes.items()": every path that starts with "/" is
\* registered with its payload; no routes is only a warning
RegisterRoutes ==
    /\ bpc = "setup"
    /\ app_routes' = SelectSeq(routes, LAMBDA r : r.key # <<>> /\ r.key[1] = "/")
    /\ bpc' = "main"
    /\ UNCHANGED <<fp, json_parser, content, li, cur, buf, routes,
                   httpVars, ruleVars, cleanVars, genVars, catalogVars>>

\* uvicorn.run(app, ...)
BundleServe ==
    /\ bpc = "main"
    /\ bpc' = "serving"
    /\ UNCHANGED <<fp, json_parser, content, li, cur, buf, routes, app_routes,
                   httpVars, ruleVars, cleanVars, genVars, catalogVars>>

\* detail of the 404 the framework answers when no registered route matches
NotFoundDetail == <<"N", "o", "t", " ", "F", "o", "u", "n", "d">>

\* the answer to GET path: the payload of the route registered for the path
\* (_endpoint), the framework's 404 when there is none
BundleGet(path) ==
    IF path \in DictKeys(app_routes)
    THEN [status_code |-> 200, content |-> DictGet(app_routes, path)]
    ELSE [status_code |-> 404, content |-> NotFoundDetail]

BundleRequestPaths == {PathA, PathB, PathC}

BundleRequest ==
    /\ bpc = "serving"
    /\ \E path \in BundleRequestPaths :
          /\ req' = path
          /\ handler' = IF path \in DictKeys(app_routes) THEN "_endpoint" ELSE "not_found"
          /\ resp' = BundleGet(path)
    /\ UNCHANGED <<bundleVars, ruleVars, cleanVars, genVars, catalogVars>>

NextBundle ==
    \/ LoadRoutesOpen \/ LoadRoutesLine \/ LoadRoutesReturn
    \/ RegisterRoutes \/ BundleServe \/ BundleRequest

SpecBundle == InitBundle /\ [][NextBundle]_vars

(***************************************************************************)
(* elastic_api_server.py: extract_route_from_query, build_route_mapping,   *)
(* catch_all, root.                                                        *)
(***************************************************************************)
\* position of the first character c of s at or after i, Len(s) + 1 if none
RECURSIVE Find(_, _, _)
Find(s, c, i) == IF i > Len(s) \/ s[i] = c THEN i ELSE Find(s, c, i + 1)

\* query.split('?')[0]
extract_route_from_query(query) == SubSeq(query, 1, Find(query, "?", 1) - 1)

\* s.rstrip('*')
RECURSIVE RStripStar(_)
RStripStar(s) ==
    IF s # <<>> /\ s[Len(s)] = "*" THEN RStripStar(SubSeq(s, 1, Len(s) - 1)) ELSE s

\* s.startswith(prefix)
StartsWith(s, prefix) ==
    Len(prefix) <= Len(s) /\ SubSeq(s, 1, Len(prefix)) = prefix

\* DATA_DIR / subdir / f"{name}{extension}", relative to DATA_DIR
FilePath(spec) ==
    (IF spec.subdir # <<>> THEN spec.subdir \o <<"/">> ELSE <<>>)
    \o spec.name \o spec.extension

\* a mapping that takes the first listed route pattern instead of the last
RouteOfFirst(spec) == extract_route_from_query(spec.versions[1].api_path)

\* the route of an API definition: the last listed pattern, query removed
RouteOf(spec) == extract_route_from_query(spec.versions[Len(spec.versions)].api_path)

\* one iteration of "for name, spec in config.items()": the new ROUTE_MAP
MapApi(map, spec, existing) ==
    IF ~spec.is_dict \/ ~spec.has_versions THEN map
    ELSE IF spec.versions = <<>> THEN map
    ELSE IF FilePath(spec) \in existing
         THEN DictSet(map, RouteOf(spec), FilePath(spec))
         ELSE map

\* f"Route not found: {route}"
RouteNotFound(route) ==
    <<"R", "o", "u", "t", "e", " ", "n", "o", "t", " ",
      "f", "o", "u", "n", "d", ":", " ">> \o route

\* the for loop of catch_all: the file of the first item, in dict order from
\* position n, whose key without its trailing "*" starts the route
RECURSIVE PartialMatch(_, _, _)
PartialMatch(map, route, n) ==
    IF n > Len(map) THEN None
    ELSE IF StartsWith(route, RStripStar(map[n].key)) THEN map[n].value
    ELSE PartialMatch(map, route, n + 1)

\* ROUTE_MAP.get(k)
MapGet(map, k) == IF k \in DictKeys(map) THEN DictGet(map, k) ELSE None

\* a partial match that does not try the exact lookups first
LookupPartialOnly(map, route) == PartialMatch(map, route, 1)

\* the three lookups of catch_all, in order
Lookup(map, route) ==
    LET exact == MapGet(map, route)
        base == MapGet(map, extract_route_from_query(route))
    IN  IF exact # None THEN exact
        ELSE IF base # None THEN base
        ELSE PartialMatch(map, route, 1)

\* a handler that answers a miss without the route
catch_all_anonymous(map, existing, full_path) ==
    LET route == <<"/">> \o full_path
        file_path == Lookup(map, route)
    IN  IF file_path = None \/ file_path \notin existing
        THEN [status_code |-> 404, content |-> RouteNotFound(<<>>)]
        ELSE [status_code |-> 200, content |-> file_path]

\* catch_all(full_path): the file served, named by its path, or the 404
catch_all(map, existing, full_path) ==
    LET route == <<"/">> \o full_path
        file_path == Lookup(map, route)
    IN  IF file_path = None \/ file_path \notin existing
        THEN [status_code |-> 404, content |-> RouteNotFound(route)]
        ELSE [status_code |-> 200, content |-> file_path]

\* ord(c) of the characters of the route patterns
CharCode(c) ==
    CASE c = "*" -> 42 [] c = "/" -> 47 [] c = "?" -> 63 [] c = "a" -> 97
      [] c = "b" -> 98 [] c = "c" -> 99 [] c = "d" -> 100 [] c = "v" -> 118

\* a < b for two str
RECURSIVE StrLess(_, _)
StrLess(a, b) ==
    IF b = <<>> THEN FALSE
    ELSE IF a = <<>> THEN TRUE
    ELSE IF a[1] # b[1] THEN CharCode(a[1]) < CharCode(b[1])
    ELSE StrLess(Tail(a), Tail(b))

\* sorted(keys)
RECURSIVE Sorted(_)
Sorted(keys) ==
    IF keys = {} THEN <<>>
    ELSE LET least == CHOOSE k \in keys : \A j \in keys \ {k} : StrLess(k, j)
         IN  <<least>> \o Sorted(keys \ {least})

\* routes_list[:20]
RoutesShown == 20

\* root(): the number of routes and the first of them in sorted order
root(map) ==
    LET routes_list == Sorted(DictKeys(map))
    IN  [status_code |-> 200,
         content |-> [routes_count |-> Len(routes_list),
                      routes |-> SubSeq(routes_list, 1,
                                        IF Len(routes_list) < RoutesShown
                                        THEN Len(routes_list) ELSE RoutesShown)]]

(***************************************************************************)
(* elastic_api_server.py as a program: main() loads the configuration,     *)
(* builds ROUTE_MAP, registers the handlers and serves GET requests.       *)
(***************************************************************************)
PathAB == <<"/", "a", "/", "b">>
PathAQuery == <<"/", "a", "?", "v">>
PathCStar == <<"/", "c", "*">>

Json == <<".", "j", "s", "o", "n">>
Txt == <<".", "t", "x", "t">>

ApiSpec(n, dict, hasv, v, ext, sub) ==
    [name |-> ApiName(n), is_dict |-> dict, has_versions |-> hasv,
     versions |-> v, extension |-> ext, subdir |-> sub]

\* the versions mappings of the catalog: one rule or two, the patterns plain,
\* with a query string or with a wildcard, and the empty mapping
CatalogVersions ==
    {<<[rule |-> RuleGe0, api_path |-> p]>> : p \in {PathA, PathAB, PathAQuery}}
    \cup {<<[rule |-> RuleGe9, api_path |-> PathAB]>>,
          <<[rule |-> RuleGe9, api_path |-> PathA], [rule |-> RuleGe0, api_path |-> PathAB]>>,
          <<[rule |-> RuleGe9, api_path |-> PathAB], [rule |-> RuleGe0, api_path |-> PathAQuery]>>,
          <<>>}

\* the n-th entry of elastic-rest.yml: an API stored as .json, a wildcard API
\* stored as .txt in a subdirectory, a value that is no mapping, a mapping
\* without versions
CatalogEntries(n) ==
    {ApiSpec(n, TRUE, TRUE, v, Json, <<>>) : v \in CatalogVersions}
    \cup {ApiSpec(n, TRUE, TRUE, <<[rule |-> RuleGe0, api_path |-> PathCStar]>>,
                  Txt, <<"c">>),
          ApiSpec(n, FALSE, FALSE, <<>>, Json, <<>>),
          ApiSpec(n, TRUE, FALSE, <<>>, Json, <<>>)}

Configs ==
    UNION {{c \in [1..k -> UNION {CatalogEntries(n) : n \in 1..k}] :
               \A n \in 1..k : c[n] \in CatalogEntries(n)} : k \in 0..MaxApis}

\* main() is entered: CONFIG_FILE may be missing, some artifact files exist,
\* and the bundle was taken at the target version
InitCatalog ==
    /\ cpc = "main"
    /\ \/ cfg = "ok" /\ config \in Configs
       \/ cfg = "missing" /\ config = <<>>
    /\ files \in SUBSET {FilePath(config[n]) : n \in 1..Len(config)}
    /\ target \in EsVersions
    /\ ci = 0 /\ ROUTE_MAP = <<>>
    /\ HttpIdle /\ RuleIdle /\ CleanIdle /\ GenIdle /\ BundleIdle

\* load_elastic_config(): open() raises when CONFIG_FILE is missing and main
\* ends with the exception
LoadElasticConfig ==
    /\ cpc = "main"
    /\ IF cfg = "ok" THEN cpc' = "build" /\ ci' = 1
                     ELSE cpc' = "crashed" /\ ci' = ci
    /\ UNCHANGED <<cfg, config, files, target, ROUTE_MAP,
                   httpVars, ruleVars, cleanVars, genVars, bundleVars>>

\* one iteration of the loop of build_route_mapping
BuildRouteMappingStep ==
    /\ cpc = "build" /\ ci <= Len(config)
    /\ ROUTE_MAP' = MapApi(ROUTE_MAP, config[ci], files)
    /\ ci' = ci + 1
    /\ UNCHANGED <<cpc, cfg, config, files, target,
                   httpVars, ruleVars, cleanVars, genVars, bundleVars>>

\* build_route_mapping returns; register_routes() and uvicorn.run(app, ...)
CatalogServe ==
    /\ cpc = "build" /\ ci > Len(config)
    /\ cpc' = "serving"
    /\ UNCHANGED <<cfg, config, files, target, ci, ROUTE_MAP,
                   httpVars, ruleVars, cleanVars, genVars, bundleVars>>

\* full_path of the requests GET /{full_path:path}
RequestPaths ==
    {<<"a">>, <<"a", "/", "b">>, <<"a", "/", "c">>, <<"a", "/", "b", "/", "c">>,
     <<"a", "/", "b", "?", "v">>, <<"c", "/", "d">>, <<"d">>}

\* GET /{full_path}
CatchAllRequest ==
    /\ cpc = "serving"
    /\ \E full_path \in RequestPaths :
          /\ req' = full_path
          /\ resp' = catch_all(ROUTE_MAP, files, full_path)
    /\ handler' = "catch_all"
    /\ UNCHANGED <<catalogVars, ruleVars, cleanVars, genVars, bundleVars>>

\* an index that root() sorts in place instead of building a sorted list
RouteMapSortedInPlace(map) ==
    LET routes_list == Sorted(DictKeys(map))
    IN  [n \in 1..Len(map) |->
            [key |-> routes_list[n], value |-> DictGet(map, routes_list[n])]]

\* ROUTE_MAP when root() returns: sorted(ROUTE_MAP.keys()) builds a new list
\* and the slice copies it, the dict is only read
RouteMapAfterRoot(map) == map

\* GET /.  The handlers are coroutines without an await: each runs to its
\* return before the event loop starts another, so concurrent requests are
\* interleavings of whole handlers.
RootRequest ==
    /\ cpc = "serving"
    /\ req' = <<>>
    /\ resp' = root(ROUTE_MAP)
    /\ handler' = "root"
    /\ ROUTE_MAP' = RouteMapAfterRoot(ROUTE_MAP)
    /\ UNCHANGED <<cpc, cfg, config, files, target, ci,
                   ruleVars, cleanVars, genVars, bundleVars>>

NextCatalog ==
    \/ LoadElasticConfig \/ BuildRouteMappingStep \/ CatalogServe
    \/ CatchAllRequest \/ RootRequest

SpecCatalog == InitCatalog /\ [][NextCatalog]_vars

\* either server is started
InitServers == InitBundle \/ InitCatalog

NextServers == NextBundle \/ NextCatalog

SpecServers == InitServers /\ [][NextServers]_vars

(***************************************************************************)
(* Claims about load_routes.                                               *)
(***************************************************************************)
\* the records of the bundle: a header line and the lines up to the next one
IsHeader(i) == HDR(content[i]) # None

Headers == {i \in 1..Len(content) : IsHeader(i)}

RecordRoute(i) == NormalizeRoute(HDR(content[i]))

RecordBody(i) ==
    LET later == {j \in Headers : j > i}
        stop == IF later = {} THEN Len(content) + 1 ELSE Least(later)
    IN  SubSeq(content, i + 1, stop - 1)

RecordPayload(i) == loads(json_parser, clean(Join(RecordBody(i))))

RecordParses(i) == RecordBody(i) # <<>> /\ RecordPayload(i) # ParseError

RecordMalformed(i) == RecordBody(i) # <<>> /\ RecordPayload(i) = ParseError

\* load_routes has returned the routes of a bundle it could read
Loaded == fp = "ok" /\ bpc \in {"setup", "main", "serving"}

\* C1: when one record's body fails structural parsing only that record is
\* dropped: every record whose body parses, before or after the malformed one,
\* is in the returned index under its own header's route.
C1_OnlyMalformedRecordDropped ==
    (Loaded /\ \E j \in Headers : RecordMalformed(j)) =>
        \A i \in Headers : RecordParses(i) => RecordRoute(i) \in DictKeys(routes)

\* C5: when a route path appears in more than one header (and the last record
\* with that path has a payload to recover), the index holds exactly one entry
\* for the path and its payload is the one of that last record.
C5_LastRecordWins ==
    Loaded =>
        \A i \in Headers :
            LET same == {j \in Headers : RecordRoute(j) = RecordRoute(i)}
                last == CHOOSE j \in same : \A k \in same : k <= j
                entries == {n \in 1..Len(routes) : routes[n].key = RecordRoute(i)}
            IN  (Cardinality(same) > 1 /\ RecordParses(last)) =>
                    /\ Cardinality(entries) = 1
                    /\ \A n \in entries : routes[n].value = RecordPayload(last)

(***************************************************************************)
(* Claims about build_route_mapping and catch_all.                         *)
(***************************************************************************)
\* the API definitions build_route_mapping can map: mappings with at least one
\* version rule whose artifact file exists
Mappable ==
    {n \in 1..Len(config) :
        /\ config[n].is_dict /\ config[n].has_versions
        /\ config[n].versions # <<>>
        /\ FilePath(config[n]) \in files}

\* k is pattern with its query string removed
QueryStripped(k, pattern) ==
    /\ \A n \in 1..Len(k) : k[n] # "?"
    /\ StartsWith(pattern, k)
    /\ Len(k) = Len(pattern) \/ pattern[Len(k) + 1] = "?"

IsKeyOf(pattern) == \E n \in 1..Len(ROUTE_MAP) : QueryStripped(ROUTE_MAP[n].key, pattern)

\* C2 as stated: the index holds, for each API definition whose artifact file
\* exists, the query-stripped pattern of the first rule in declared order that
\* matches the target version, and a definition none of whose rules match
\* contributes no key.
C2_FirstMatchingRuleIsKey ==
    cpc = "serving" =>
        LET matching(n) == MatchingEntries(config[n].versions, target)
            resolved == {n \in Mappable : matching(n) # {}}
            pattern(n) == config[n].versions[Least(matching(n))].api_path
        IN  /\ \A n \in resolved : IsKeyOf(pattern(n))
            /\ \A m \in 1..Len(ROUTE_MAP) :
                  \E n \in resolved : QueryStripped(ROUTE_MAP[m].key, pattern(n))

\* C2 amended: the index holds, for each API definition with at least one rule
\* whose artifact file exists, the query-stripped pattern of the last rule in
\* declared order, whatever the target version; every key is such a pattern.
C2_LastRuleIsKey ==
    cpc = "serving" =>
        LET pattern(n) == config[n].versions[Len(config[n].versions)].api_path
        IN  /\ \A n \in Mappable : IsKeyOf(pattern(n))
            /\ \A m \in 1..Len(ROUTE_MAP) :
                  \E n \in Mappable : QueryStripped(ROUTE_MAP[m].key, pattern(n))

\* at target 9.1.0 the definition [">=9.0.0" -> /a/b, ">=0.0.0" -> /a?v] is
\* mapped under /a and the definition [">=9.0.0" -> /a, ">=0.0.0" -> /a/b]
\* under /a/b: each under its last pattern, although the first rule matches
C2_Witness ==
    /\ cpc = "serving"
    /\ target = FormatVersion(<<9, 1, 0>>)
    /\ Len(config) = 2
    /\ config[1].versions = <<[rule |-> RuleGe9, api_path |-> PathAB],
                              [rule |-> RuleGe0, api_path |-> PathAQuery]>>
    /\ config[2].versions = <<[rule |-> RuleGe9, api_path |-> PathA],
                              [rule |-> RuleGe0, api_path |-> PathAB]>>
    /\ Mappable = {1, 2}
    /\ ROUTE_MAP = <<[key |-> PathA, value |-> FilePath(config[1])],
                     [key |-> PathAB, value |-> FilePath(config[2])]>>

\* the positions of the index entries whose key, without its trailing
\* wildcard marker, is a prefix of the route
PrefixEntries(route) ==
    {n \in 1..Len(ROUTE_MAP) : StartsWith(route, RStripStar(ROUTE_MAP[n].key))}

EntryOf(k) == CHOOSE n \in 1..Len(ROUTE_MAP) : ROUTE_MAP[n].key = k

Served(n) == [status_code |-> 200, content |-> ROUTE_MAP[n].value]

\* C4 as stated: catch_all returns the entry whose key equals the request path
\* whenever there is one; only when no key is equal, the first entry in
\* insertion order whose trimmed key is a prefix of the path.
C4_ExactElseFirstPrefix ==
    handler = "catch_all" =>
        LET route == <<"/">> \o req
        IN  IF route \in DictKeys(ROUTE_MAP) THEN resp = Served(EntryOf(route))
            ELSE PrefixEntries(route) # {} =>
                    resp = Served(Least(PrefixEntries(route)))

\* C4 amended: ... only when no key equals the request path, nor the request
\* path cut at its first "?", the first entry in insertion order whose trimmed
\* key is a prefix of the path; a key equal to the cut path wins before that.
C4_ExactElseBaseElseFirstPrefix ==
    handler = "catch_all" =>
        LET route == <<"/">> \o req
            base == SubSeq(route, 1, Find(route, "?", 1) - 1)
        IN  IF route \in DictKeys(ROUTE_MAP) THEN resp = Served(EntryOf(route))
            ELSE IF base \in DictKeys(ROUTE_MAP) THEN resp = Served(EntryOf(base))
            ELSE PrefixEntries(route) # {} =>
                    resp = Served(Least(PrefixEntries(route)))

\* /a was inserted before /a/b, and GET /a/b is served the entry of /a/b
C4_Witness ==
    /\ handler = "catch_all"
    /\ Len(ROUTE_MAP) = 2
    /\ ROUTE_MAP[1].key = PathA /\ ROUTE_MAP[2].key = PathAB
    /\ req = <<"a", "/", "b">>
    /\ resp = Served(2)

C8_NoServingWithoutFile ==
    /\ fp \in {"missing", "unreadable"} => bpc # "serving"
    /\ cfg = "missing" => cpc # "serving"

(***************************************************************************)
(* Claims about the keys of the route indexes.                             *)
(***************************************************************************)
HasQuery(k) == \E n \in 1..Len(k) : k[n] = "?"

\* C11: no key of ROUTE_MAP after build_route_mapping and no key of the map
\* returned by load_routes contains a "?", also when the catalog pattern or
\* the bundle header path carries a query string.
C11_NoQueryInKeys ==
    /\ cpc = "serving" => \A k \in DictKeys(ROUTE_MAP) : ~HasQuery(k)
    /\ bpc \in {"setup", "main", "serving"} => \A k \in DictKeys(routes) : ~HasQuery(k)

\* C12: once serving has begun no step changes ROUTE_MAP: every request, in
\* any interleaving of catch_all and root requests, leaves its keys, values
\* and iteration order as they were at the end of the load phase.
C12_IndexImmutableWhileServing ==
    [][cpc = "serving" => ROUTE_MAP' = ROUTE_MAP]_vars

\* root has answered while the index lists /a/b before /a, which is not the
\* sorted order root reports
C12_Witness ==
    /\ cpc = "serving" /\ handler = "root"
    /\ Len(ROUTE_MAP) = 2
    /\ ROUTE_MAP[1].key = PathAB /\ ROUTE_MAP[2].key = PathA
    /\ resp.content.routes = <<PathA, PathAB>>

\* the normalized route pattern of the n-th API definition: its last listed
\* pattern up to the first "?"
Normalized(n) ==
    LET pattern == config[n].versions[Len(config[n].versions)].api_path
    IN  CHOOSE k \in {SubSeq(pattern, 1, l) : l \in 0..Len(pattern)} :
            QueryStripped(k, pattern)

\* C13: when two registered API definitions (mappings with a versions rule
\* whose artifact file exists) resolve to the same normalized route pattern,
\* build_route_mapping completes and the index holds a single entry for the
\* pattern, mapped to the artifact of the last of them in catalog order.
C13_DuplicatePatternLastWins ==
    cpc = "serving" =>
        \A i \in Mappable : \A j \in Mappable :
            (i < j /\ Normalized(i) = Normalized(j)) =>
                LET group == {n \in Mappable : Normalized(n) = Normalized(i)}
                    last == CHOOSE n \in group : \A o \in group : o <= n
                    entries == {e \in 1..Len(ROUTE_MAP) :
                                   ROUTE_MAP[e].key = Normalized(i)}
                IN  /\ Cardinality(entries) = 1
                    /\ \A e \in entries : ROUTE_MAP[e].value = FilePath(config[last])

\* the definitions [">=0.0.0" -> /a] and [">=9.0.0" -> /a/b, ">=0.0.0" -> /a?v]
\* both resolve to /a and the server serves with /a mapped to the second's file
C13_Witness ==
    /\ cpc = "serving"
    /\ Len(config) = 2 /\ Mappable = {1, 2}
    /\ config[1].versions = <<[rule |-> RuleGe0, api_path |-> PathA]>>
    /\ config[2].versions = <<[rule |-> RuleGe9, api_path |-> PathAB],
                              [rule |-> RuleGe0, api_path |-> PathAQuery]>>
    /\ ROUTE_MAP = <<[key |-> PathA, value |-> FilePath(config[2])]>>

(***************************************************************************)
(* Claims about the records load_routes reads.                             *)
(***************************************************************************)
\* C14: after a header line is processed the buffer is empty and the current
\* route is that header's path, and every payload load_routes returns under a
\* route is the one parsed from exactly the body lines of one record whose
\* header names that route.
C14_PayloadFromOneRecord ==
    /\ (bpc = "scan" /\ li > 1 /\ IsHeader(li - 1)) =>
          buf = <<>> /\ cur = RecordRoute(li - 1)
    /\ Loaded =>
          \A n \in 1..Len(routes) :
              \E i \in Headers :
                  /\ RecordRoute(i) = routes[n].key
                  /\ RecordParses(i)
                  /\ RecordPayload(i) = routes[n].value

\* C15: a record is loaded the same way whether a header line or the end of
\* input ends it: for every record whose route no other header names, the
\* index load_routes returns for the bundle holds under that route what the
\* index holds when the bundle ends after the record's body: the same payload
\* when the body parses, no entry when it does not.
C15_HeaderAndEndOfInputAgree ==
    Loaded =>
        \A i \in Headers :
            LET route == RecordRoute(i)
                same == {j \in Headers : RecordRoute(j) = route}
                ended == load_routes(json_parser,
                                     SubSeq(content, 1, i + Len(RecordBody(i))))
                entry(d) == IF route \in DictKeys(d) THEN DictGet(d, route) ELSE None
            IN  same = {i} => entry(routes) = entry(ended)

====
